---- MODULE Spec2Model ----
(***************************************************************************)
(* A model of server.py, the Genymotion SaaS adapter: the command executor *)
(* run_gmsaas_command and the nine operations built on it.                  *)
(*                                                                         *)
(* Text is a sequence of tokens.  A value that comes from outside (a       *)
(* stream of the external tool, a field of its payload, an argument of an  *)
(* operation) is spelled character by character; a literal fragment of a   *)
(* format string of the source is one token.  So "text t contains stream   *)
(* s" in the model means the characters of s were copied into t.           *)
(*                                                                         *)
(* A Python/JSON value is a record tagged by kind: null, num, str, list,   *)
(* dict (a dict keeps its insertion order: a sequence of key/value pairs). *)
(***************************************************************************)
EXTENDS Integers, Sequences, FiniteSets, TLC

VARIABLES pc, op, args, local, trace, returned

vars == <<pc, op, args, local, trace, returned>>

-----------------------------------------------------------------------------
(* Bounds of the model.                                                    *)

\* longest list payload (catalog, instance list, image list) the tool returns
MaxList == 2

-----------------------------------------------------------------------------
(* Text helpers.                                                           *)

NL == "\n"

RECURSIVE Concat(_)
Concat(ss) == IF ss = <<>> THEN <<>> ELSE Head(ss) \o Concat(Tail(ss))

\* Python: a in b, for two str
IsSubstr(a, b) ==
    \E i \in 0..(Len(b) - Len(a)) : SubSeq(b, i + 1, i + Len(a)) = a

StartsWith(t, p) == Len(t) >= Len(p) /\ SubSeq(t, 1, Len(p)) = p

UpperChars == <<"A","B","C","D","E","F","G","H","I","J","K","L","M",
                "N","O","P","Q","R","S","T","U","V","W","X","Y","Z">>
LowerChars == <<"a","b","c","d","e","f","g","h","i","j","k","l","m",
                "n","o","p","q","r","s","t","u","v","w","x","y","z">>

LowerChar(c) ==
    IF \E i \in 1..Len(UpperChars) : UpperChars[i] = c
    THEN LowerChars[CHOOSE i \in 1..Len(UpperChars) : UpperChars[i] = c]
    ELSE c

\* Python: s.lower()
Lower(s) == [i \in 1..Len(s) |-> LowerChar(s[i])]

Digits == <<"0","1","2","3","4","5","6","7","8","9">>

\* Python: str(n) for an int n >= 0
RECURSIVE IntToStr(_)
IntToStr(n) ==
    IF n < 10 THEN <<Digits[n + 1]>>
    ELSE IntToStr(n \div 10) \o <<Digits[(n % 10) + 1]>>

-----------------------------------------------------------------------------
(* Python / JSON values.                                                   *)

JNull == [kind |-> "null"]
JNum(n) == [kind |-> "num", n |-> n]
JStr(s) == [kind |-> "str", s |-> s]
JList(items) == [kind |-> "list", items |-> items]
JDict(pairs) == [kind |-> "dict", items |-> pairs]
KV(k, v) == [k |-> k, v |-> v]

\* the placeholder 'Unknown' of the source, as a Python str
Unknown == <<"U","n","k","n","o","w","n">>

\* a variant of Truthy: `result is None` in place of `not result`
TruthyNotNone(v) == v.kind /= "null"

\* Python truthiness: `not result`
Truthy(v) ==
    CASE v.kind = "null" -> FALSE
      [] v.kind = "num" -> v.n /= 0
      [] v.kind = "str" -> v.s /= <<>>
      [] OTHER -> v.items /= <<>>

TypeName(v) ==
    CASE v.kind = "null" -> "NoneType"
      [] v.kind = "num" -> "int"
      [] v.kind = "str" -> "str"
      [] v.kind = "list" -> "list"
      [] OTHER -> "dict"

HasKey(d, key) == \E i \in 1..Len(d.items) : d.items[i].k = key

\* Python: d.get(key, default), for a dict d
Get(d, key, default) ==
    IF HasKey(d, key)
    THEN d.items[CHOOSE i \in 1..Len(d.items) : d.items[i].k = key].v
    ELSE default

\* Python: repr(v)
RECURSIVE Repr(_)
RECURSIVE ReprItems(_)
RECURSIVE ReprPairs(_)
Repr(v) ==
    CASE v.kind = "null" -> <<"None">>
      [] v.kind = "num" -> IntToStr(v.n)
      [] v.kind = "str" -> <<"'">> \o v.s \o <<"'">>
      [] v.kind = "list" -> <<"[">> \o ReprItems(v.items) \o <<"]">>
      [] OTHER -> <<"{">> \o ReprPairs(v.items) \o <<"}">>
ReprItems(items) ==
    IF items = <<>> THEN <<>>
    ELSE Repr(Head(items))
         \o (IF Len(items) > 1 THEN <<", ">> ELSE <<>>)
         \o ReprItems(Tail(items))
ReprPairs(pairs) ==
    IF pairs = <<>> THEN <<>>
    ELSE <<"'", Head(pairs).k, "'", ": ">> \o Repr(Head(pairs).v)
         \o (IF Len(pairs) > 1 THEN <<", ">> ELSE <<>>)
         \o ReprPairs(Tail(pairs))

\* Python: the text an f-string puts for {v}: str(v)
Str(v) == IF v.kind = "str" THEN v.s ELSE Repr(v)

Spaces(n) == [i \in 1..n |-> " "]

\* Python: json.dumps(v, indent=2), lvl the nesting depth
RECURSIVE Dumps(_, _)
RECURSIVE DumpsItems(_, _)
RECURSIVE DumpsPairs(_, _)
Dumps(v, lvl) ==
    CASE v.kind = "null" -> <<"null">>
      [] v.kind = "num" -> IntToStr(v.n)
      [] v.kind = "str" -> <<"\"">> \o v.s \o <<"\"">>
      [] v.kind = "list" ->
            IF v.items = <<>> THEN <<"[]">>
            ELSE <<"[", NL>> \o DumpsItems(v.items, lvl + 1)
                 \o <<NL>> \o Spaces(2 * lvl) \o <<"]">>
      [] OTHER ->
            IF v.items = <<>> THEN <<"{}">>
            ELSE <<"{", NL>> \o DumpsPairs(v.items, lvl + 1)
                 \o <<NL>> \o Spaces(2 * lvl) \o <<"}">>
DumpsItems(items, lvl) ==
    IF items = <<>> THEN <<>>
    ELSE Spaces(2 * lvl) \o Dumps(Head(items), lvl)
         \o (IF Len(items) > 1 THEN <<",", NL>> ELSE <<>>)
         \o DumpsItems(Tail(items), lvl)
DumpsPairs(pairs, lvl) ==
    IF pairs = <<>> THEN <<>>
    ELSE Spaces(2 * lvl) \o <<"\"", Head(pairs).k, "\"", ": ">>
         \o Dumps(Head(pairs).v, lvl)
         \o (IF Len(pairs) > 1 THEN <<",", NL>> ELSE <<>>)
         \o DumpsPairs(Tail(pairs), lvl)

-----------------------------------------------------------------------------
(* Outcomes of a piece of code: a returned text, a returned value, or a    *)
(* raised exception with its class and its str().                          *)

Ret(t) == [tag |-> "return", text |-> t]
Ok(v) == [tag |-> "ok", value |-> v]
Raise(c, m) == [tag |-> "raise", cls |-> c, text |-> m]

\* the exception classes the code can meet, each with its base class
BaseOf(c) ==
    CASE c = "AttributeError" -> "Exception"
      [] c = "TypeError" -> "Exception"
      [] c = "FileNotFoundError" -> "OSError"
      [] c = "OSError" -> "Exception"
      [] c = "CalledProcessError" -> "SubprocessError"
      [] c = "SubprocessError" -> "Exception"
      [] c = "JSONDecodeError" -> "ValueError"
      [] c = "ValueError" -> "Exception"
      [] c = "Exception" -> "BaseException"
      [] OTHER -> "BaseException"

RECURSIVE IsSubclass(_, _)
IsSubclass(c, base) ==
    \/ c = base
    \/ c /= "BaseException" /\ IsSubclass(BaseOf(c), base)

\* v.get(...) on a value that is no dict
NoGet(v) ==
    Raise("AttributeError",
          <<"'", TypeName(v), "' object has no attribute 'get'">>)

\* v.lower() on a value that is no str
NoLower(v) ==
    Raise("AttributeError",
          <<"'", TypeName(v), "' object has no attribute 'lower'">>)

-----------------------------------------------------------------------------
(* The external tool.  One run of it either finds no binary, or exits with *)
(* a status and two captured streams.  Its stdout is raw text, or a JSON   *)
(* document (held as the value it denotes).                                *)

Raw(t) == [json |-> FALSE, text |-> t]
Doc(v) == [json |-> TRUE, value |-> v]

Missing == [kind |-> "missing"]
Exited(code, out, err) ==
    [kind |-> "exit", returncode |-> code, stdout |-> out, stderr |-> err]

\* catalog entries (recipes) the tool may list
Pixel == JDict(<<KV("name", JStr(<<"P","i","x","e","l">>)),
                 KV("uuid", JStr(<<"u","1">>)),
                 KV("android_version", JStr(<<"9",".","0">>)),
                 KV("os_version", JStr(<<"9",".","0">>))>>)
Nine9 == JDict(<<KV("name", JStr(<<"N","i","n","e","9">>)),
                 KV("uuid", JStr(<<"u","2">>)),
                 KV("android_version", JStr(<<"8",".","0">>))>>)
Px9 == JDict(<<KV("name", JStr(<<"P","x","9">>)),
               KV("android_version", JStr(<<"9",".","0">>))>>)
Anon == JDict(<<KV("uuid", JStr(<<"u","5">>))>>)
NullName == JDict(<<KV("uuid", JStr(<<"u","3">>)), KV("name", JNull)>>)
NotADict == JStr(<<"x">>)

RecipePool == {Pixel, Nine9, Px9, Anon, NullName, NotADict}

\* instance records the tool may list
Dev == JDict(<<KV("name", JStr(<<"d","e","v">>)),
               KV("uuid", JStr(<<"i","1">>)),
               KV("state", JStr(<<"O","N","L","I","N","E">>))>>)
Bare == JDict(<<KV("uuid", JStr(<<"i","2">>))>>)

InstancePool == {Dev, Bare, NotADict}

\* OS images the tool may list: two images carry the same version
Img9a == JDict(<<KV("uuid", JStr(<<"o","1">>)),
                 KV("os_version", JStr(<<"9",".","0">>))>>)
Img9b == JDict(<<KV("uuid", JStr(<<"o","2">>)),
                 KV("os_version", JStr(<<"9",".","0">>))>>)
Img10 == JDict(<<KV("os_version", JStr(<<"1","0",".","0">>))>>)
ImgNoVersion == JDict(<<KV("uuid", JStr(<<"o","4">>))>>)

ImagePool == {Img9a, Img9b, Img10, ImgNoVersion}

\* every list of at most MaxList elements of pool
Lists(pool) ==
    UNION {[1..n -> pool] : n \in 0..MaxList}

Serial == <<"l","o","c","a","l","h","o","s","t",":","6","5","5","5">>

\* payloads of a shape no operation expects
OddPayloads ==
    {JNull, JNum(7), JStr(<<"o","k">>), JDict(<<>>), JList(<<>>),
     JDict(<<KV("message", JStr(<<"o","k">>))>>),
     JList(<<JStr(<<"i","n","s","t","a","n","c","e">>)>>)}

Screen == JStr(<<"1","0","8","0","x","1","9","2","0">>)

StartPayloads ==
    {JDict(<<KV("instance", JDict(<<KV("uuid", JStr(<<"i","1">>)),
                                    KV("state", JStr(<<"O","N">>)),
                                    KV("adb_serial", JStr(Unknown))>>))>>),
     JDict(<<KV("instance", JDict(<<KV("uuid", JStr(<<"i","1">>)),
                                    KV("recipe", JDict(<<
                                        KV("name", JStr(<<"P","x">>)),
                                        KV("screen", Screen)>>))>>))>>),
     JDict(<<KV("uuid", JStr(<<"i","1">>)), KV("state", JStr(<<"O","N">>))>>),
     JDict(<<KV("instance", JNull)>>),
     JDict(<<KV("instance", JDict(<<KV("recipe", JNull)>>))>>),
     JStr(<<"i","n","s","t","a","n","c","e">>)}

ConnectPayloads ==
    {JDict(<<KV("instance", JDict(<<KV("adb_serial", JStr(Serial))>>))>>),
     JDict(<<KV("instance", JDict(<<KV("adb_serial", JStr(Unknown))>>))>>),
     JDict(<<KV("instance", JDict(<<KV("uuid", JStr(<<"i","1">>))>>))>>),
     JDict(<<KV("instance", JDict(<<KV("adb_serial", JNull)>>))>>),
     JDict(<<KV("instance", JNull)>>),
     JDict(<<KV("adb_serial", JStr(Serial))>>)}

GetPayloads ==
    {JDict(<<KV("uuid", JStr(<<"i","1">>)), KV("adb_serial", JStr(Serial))>>),
     JDict(<<KV("adb_serial", JStr(Unknown))>>),
     JDict(<<KV("uuid", JStr(<<"i","1">>))>>),
     JDict(<<KV("adb_serial", JNull)>>),
     JDict(<<KV("instance", JDict(<<KV("adb_serial", JStr(Serial))>>))>>)}

\* the JSON documents the tool may print for a sub-command
Payloads(sub) ==
    OddPayloads \cup
    CASE sub = "recipes list" -> {JList(l) : l \in Lists(RecipePool)}
      [] sub = "recipes get" -> {Pixel, Px9}
      [] sub = "instances list" -> {JList(l) : l \in Lists(InstancePool)}
      [] sub = "instances start" -> StartPayloads
      [] sub = "instances stop" -> {Dev}
      [] sub = "instances adbconnect" -> ConnectPayloads
      [] sub = "instances get" -> GetPayloads
      [] sub = "instances adbdisconnect" -> {Dev}
      [] OTHER -> {JList(l) : l \in Lists(ImagePool)}

ErrStreams == {<<>>, <<"d","e","n","i","e","d">>}
OutStreams == {<<>>, <<"o","o","p","s">>}

\* what one run of the tool can end with
ProcResults(sub) ==
    {Missing}
    \cup {Exited(1, Raw(o), e) : o \in OutStreams, e \in ErrStreams}
    \cup {Exited(0, Raw(o), <<>>) : o \in OutStreams}
    \cup {Exited(0, Doc(v), <<>>) : v \in Payloads(sub)}

-----------------------------------------------------------------------------
(* run_gmsaas_command                                                      *)

Lit(s) == <<s>>

\* full_command = ["gmsaas", "--format", "json"] + command
FullCommand(command) ==
    <<Lit("gmsaas"), Lit("--format"), Lit("json")>> \o command

\* subprocess.run(..., check=True): the value or the exception it raises
SubprocessRun(proc) ==
    IF proc.kind = "missing"
    THEN Raise("FileNotFoundError",
               <<"[Errno 2] No such file or directory: 'gmsaas'">>)
    ELSE IF proc.returncode /= 0
    THEN Raise("CalledProcessError", <<"Command returned non-zero exit status">>)
    ELSE Ok(proc)

\* json.loads(result.stdout)
JsonLoads(out) ==
    IF out.json THEN Ok(out.value)
    ELSE Raise("JSONDecodeError", <<"Expecting value">>)

\* a variant of ErrorMessage: the two streams taken in the other order
ErrorMessageStdoutFirst(proc) ==
    IF proc.stdout.text /= <<>> THEN proc.stdout.text ELSE proc.stderr

\* error_message = e.stderr if e.stderr else e.stdout
ErrorMessage(proc) ==
    IF proc.stderr /= <<>> THEN proc.stderr ELSE proc.stdout.text

\* a variant of run_gmsaas_command: a failed run is swallowed and an empty
\* dict returned in its place
run_gmsaas_command_swallow(proc) ==
    IF proc.kind = "exit" /\ proc.returncode = 0 /\ proc.stdout.json
    THEN Ok(proc.stdout.value)
    ELSE Ok(JDict(<<>>))

run_gmsaas_command(proc) ==
    LET ran == SubprocessRun(proc)
        loaded == IF ran.tag = "ok" THEN JsonLoads(proc.stdout) ELSE ran
    IN  IF loaded.tag = "raise" /\ IsSubclass(loaded.cls, "CalledProcessError")
        THEN Raise("Exception",
                   <<"Error executing gmsaas command: ">> \o ErrorMessage(proc))
        ELSE IF loaded.tag = "raise" /\ IsSubclass(loaded.cls, "JSONDecodeError")
        THEN Raise("Exception", <<"Error parsing command output as JSON">>)
        ELSE loaded

\* a variant of Except: only the Exception that run_gmsaas_command raises
\* itself is caught, not its subclasses
ExceptRaisedOnly(prefix, r) ==
    IF r.tag = "raise" /\ r.cls = "Exception"
    THEN Ret(<<prefix>> \o r.text)
    ELSE r

\* except Exception as e: return f"<prefix>{str(e)}"
Except(prefix, r) ==
    IF r.tag = "raise" /\ IsSubclass(r.cls, "Exception")
    THEN Ret(<<prefix>> \o r.text)
    ELSE r

-----------------------------------------------------------------------------
(* The operations.  Each is the body of its try block, applied to the      *)
(* outcome r of run_gmsaas_command, then the except clause.                 *)

\* the first element of items that is no dict: its .get raises
FirstNonDict(items) ==
    items[CHOOSE i \in 1..Len(items) :
            /\ items[i].kind /= "dict"
            /\ \A j \in 1..(i - 1) : items[j].kind = "dict"]

AllDicts(items) == \A i \in 1..Len(items) : items[i].kind = "dict"

RecipeLines(recipe) ==
    <<"- Name: ">> \o Str(Get(recipe, "name", JStr(Unknown))) \o <<NL>>
    \o <<"  UUID: ">> \o Str(Get(recipe, "uuid", JStr(Unknown))) \o <<NL>>
    \o <<"  OS Version: ">> \o Str(Get(recipe, "os_version", JStr(Unknown)))
    \o <<NL, NL>>

list_recipes_try(r) ==
    IF r.tag = "raise" THEN r
    ELSE IF ~Truthy(r.value) THEN Ret(<<"No recipes found.">>)
    ELSE IF r.value.kind = "list"
    THEN IF AllDicts(r.value.items)
         THEN Ret(<<"Available recipes:", NL>>
                  \o Concat([i \in 1..Len(r.value.items) |->
                                RecipeLines(r.value.items[i])]))
         ELSE NoGet(FirstNonDict(r.value.items))
    ELSE Ret(<<"Recipes information: ">> \o Str(r.value))

list_recipes(proc) ==
    Except("Error listing recipes: ", list_recipes_try(run_gmsaas_command(proc)))

get_recipe_details_try(r) ==
    IF r.tag = "raise" THEN r ELSE Ret(Dumps(r.value, 0))

get_recipe_details(recipe_uuid, proc) ==
    Except("Error getting recipe details: ",
           get_recipe_details_try(run_gmsaas_command(proc)))

InstanceLines(instance) ==
    <<"- Name: ">> \o Str(Get(instance, "name", JStr(Unknown))) \o <<NL>>
    \o <<"  UUID: ">> \o Str(Get(instance, "uuid", JStr(Unknown))) \o <<NL>>
    \o <<"  State: ">> \o Str(Get(instance, "state", JStr(Unknown)))
    \o <<NL, NL>>

list_running_instances_try(r) ==
    IF r.tag = "raise" THEN r
    ELSE IF ~Truthy(r.value) THEN Ret(<<"No running instances found.">>)
    ELSE IF r.value.kind = "list"
    THEN IF AllDicts(r.value.items)
         THEN Ret(<<"Running instances:", NL>>
                  \o Concat([i \in 1..Len(r.value.items) |->
                                InstanceLines(r.value.items[i])]))
         ELSE NoGet(FirstNonDict(r.value.items))
    ELSE Ret(<<"Instances information: ">> \o Str(r.value))

list_running_instances(proc) ==
    Except("Error listing instances: ",
           list_running_instances_try(run_gmsaas_command(proc)))

\* Python: key in v, for a str key: Ok(TRUE/FALSE) or the TypeError
Contains(key, v) ==
    CASE v.kind = "dict" -> Ok(\E i \in 1..Len(v.items) : v.items[i].k = key.name)
      [] v.kind = "list" -> Ok(\E i \in 1..Len(v.items) : v.items[i] = JStr(key.chars))
      [] v.kind = "str" -> Ok(IsSubstr(key.chars, v.s))
      [] OTHER -> Raise("TypeError",
                        <<"argument of type '", TypeName(v), "' is not iterable">>)

\* Python: v[key], for a str key that `key in v` found
Index(v, key) ==
    CASE v.kind = "dict" -> Ok(Get(v, key.name, JNull))
      [] v.kind = "list" ->
            Raise("TypeError", <<"list indices must be integers or slices, not str">>)
      [] OTHER -> Raise("TypeError", <<"string indices must be integers, not 'str'">>)

KeyInstance == [name |-> "instance", chars |-> <<"i","n","s","t","a","n","c","e">>]

\* lines 146-152: the device details of a started instance
DeviceDetails(result) ==
    IF ~HasKey(result, "recipe") THEN Ok(<<>>)
    ELSE LET recipe == Get(result, "recipe", JNull)
         IN  IF recipe.kind /= "dict" THEN NoGet(recipe)
             ELSE Ok(<<NL, "Device Details:", NL>>
                     \o <<"- Name: ">>
                     \o Str(Get(recipe, "name", JStr(Unknown))) \o <<NL>>
                     \o <<"- Android Version: ">>
                     \o Str(Get(recipe, "android_version", JStr(Unknown))) \o <<NL>>
                     \o <<"- Screen: ">>
                     \o Str(Get(recipe, "screen", JStr(Unknown))) \o <<NL>>)

\* lines 141-155: the text for the instance record `result`
StartText(instance_name, result) ==
    IF result.kind /= "dict" THEN NoGet(result)
    ELSE LET details == DeviceDetails(result)
         IN  IF details.tag = "raise" THEN details
             ELSE Ret(<<"Instance '">> \o instance_name
                      \o <<"' started successfully!", NL>>
                      \o <<"UUID: ">>
                      \o Str(Get(result, "uuid", JStr(Unknown))) \o <<NL>>
                      \o <<"State: ">>
                      \o Str(Get(result, "state", JStr(Unknown))) \o <<NL>>
                      \o <<"ADB Serial: ">>
                      \o Str(Get(result, "adb_serial", JStr(Unknown))) \o <<NL>>
                      \o details.value)

start_instance_try(instance_name, r) ==
    IF r.tag = "raise" THEN r
    ELSE LET json_result == r.value
             nested == Contains(KeyInstance, json_result)
         IN  IF nested.tag = "raise" THEN nested
             ELSE IF nested.value
             THEN LET result == Index(json_result, KeyInstance)
                  IN  IF result.tag = "raise" THEN result
                      ELSE StartText(instance_name, result.value)
             ELSE StartText(instance_name, json_result)

start_instance(recipe_uuid, instance_name, proc) ==
    Except("Error starting instance: ",
           start_instance_try(instance_name, run_gmsaas_command(proc)))

stop_instance_try(instance_uuid, r) ==
    IF r.tag = "raise" THEN r
    ELSE Ret(<<"Instance ">> \o instance_uuid \o <<" stopped successfully.">>)

stop_instance(instance_uuid, proc) ==
    Except("Error stopping instance: ",
           stop_instance_try(instance_uuid, run_gmsaas_command(proc)))

disconnect_adb_try(instance_uuid, r) ==
    IF r.tag = "raise" THEN r
    ELSE Ret(<<"ADB disconnected from ">> \o instance_uuid \o <<".">>)

disconnect_adb(instance_uuid, proc) ==
    Except("Error disconnecting ADB: ",
           disconnect_adb_try(instance_uuid, run_gmsaas_command(proc)))

\* Python: for image in result: the elements, or the TypeError
Iterate(v) ==
    CASE v.kind = "list" -> Ok(v.items)
      [] v.kind = "dict" -> Ok([i \in 1..Len(v.items) |-> JStr(<<v.items[i].k>>)])
      [] v.kind = "str" -> Ok([i \in 1..Len(v.s) |-> JStr(<<v.s[i]>>)])
      [] OTHER -> Raise("TypeError", <<"'", TypeName(v), "' object is not iterable">>)

\* a variant of VersionLine: the field read under another key
VersionLineWrongKey(image) ==
    <<"- ">> \o Str(Get(image, "android_version", JStr(Unknown))) \o <<NL>>

VersionLine(image) ==
    <<"- ">> \o Str(Get(image, "os_version", JStr(Unknown))) \o <<NL>>

get_available_os_versions_try(r) ==
    IF r.tag = "raise" THEN r
    ELSE IF ~Truthy(r.value) THEN Ret(<<"No Android OS versions found.">>)
    ELSE LET images == Iterate(r.value)
         IN  IF images.tag = "raise" THEN images
             ELSE IF AllDicts(images.value)
             THEN Ret(<<"Available Android OS versions:", NL>>
                      \o Concat([i \in 1..Len(images.value) |->
                                    VersionLine(images.value[i])]))
             ELSE NoGet(FirstNonDict(images.value))

get_available_os_versions(proc) ==
    Except("Error listing OS versions: ",
           get_available_os_versions_try(run_gmsaas_command(proc)))

-----------------------------------------------------------------------------
(* connect_adb, in the pieces between its two runs of the tool.            *)

\* lines 178-180
ConnectCommand(instance_uuid, adb_port) ==
    <<Lit("instances"), Lit("adbconnect"), instance_uuid>>
    \o (IF adb_port.kind /= "null"
        THEN <<Lit("--adb-serial-port"), IntToStr(adb_port.n)>>
        ELSE <<>>)

\* line 185: result.get('instance', {}).get('adb_serial', 'Unknown')
NestedSerial(result) ==
    IF result.kind /= "dict" THEN NoGet(result)
    ELSE LET instance == Get(result, "instance", JDict(<<>>))
         IN  IF instance.kind /= "dict" THEN NoGet(instance)
             ELSE Ok(Get(instance, "adb_serial", JStr(Unknown)))

\* a variant of SerialUnknown: `if adb_serial_value:`
SerialTruthy(adb_serial_value) == Truthy(adb_serial_value)

\* line 188: the fallback is taken
SerialUnknown(adb_serial_value) == adb_serial_value = JStr(Unknown)

\* a variant of TopLevelSerial: the identifier looked for where the connect
\* payload has it, nested under "instance"
TopLevelSerialNested(instance_details_result, adb_serial_value) ==
    IF instance_details_result.kind = "dict"
       /\ Get(instance_details_result, "instance", JDict(<<>>)).kind = "dict"
    THEN Get(Get(instance_details_result, "instance", JDict(<<>>)),
             "adb_serial", JStr(Unknown))
    ELSE adb_serial_value

\* lines 192-197: the inner try swallows the failure of .get and keeps the
\* value it had
TopLevelSerial(instance_details_result, adb_serial_value) ==
    IF instance_details_result.kind = "dict"
    THEN Get(instance_details_result, "adb_serial", JStr(Unknown))
    ELSE adb_serial_value

\* line 199
ConnectText(instance_uuid, adb_serial_value) ==
    Ret(<<"ADB connected to ">> \o instance_uuid
        \o <<". Use ADB serial: ">> \o Str(adb_serial_value))

-----------------------------------------------------------------------------
(* search_recipes, in the pieces around its run of the tool and its call   *)
(* of list_recipes.                                                        *)

\* a variant of Matches: the name alone is searched
MatchesNameOnly(recipe_name, recipe) ==
    IF recipe.kind /= "dict" THEN NoGet(recipe)
    ELSE LET name == Get(recipe, "name", JStr(<<>>))
         IN  IF name.kind /= "str" THEN NoLower(name)
             ELSE Ok(IsSubstr(Lower(recipe_name), Lower(name.s)))

\* lines 249-250: Ok(TRUE/FALSE), or the AttributeError of .get / .lower
Matches(recipe_name, recipe) ==
    IF recipe.kind /= "dict" THEN NoGet(recipe)
    ELSE LET name == Get(recipe, "name", JStr(<<>>))
             version == Get(recipe, "android_version", JStr(<<>>))
         IN  IF name.kind /= "str" THEN NoLower(name)
             ELSE IF IsSubstr(Lower(recipe_name), Lower(name.s)) THEN Ok(TRUE)
             ELSE IF version.kind /= "str" THEN NoLower(version)
             ELSE Ok(IsSubstr(Lower(recipe_name), Lower(version.s)))

\* lines 247-251: the loop, matching_recipes so far in `matching`.  The
\* outcome carries matching_recipes in `value` also when an entry raises:
\* the list then holds the entries appended before the raise.
RECURSIVE FilterRecipes(_, _, _)
FilterRecipes(recipe_name, items, matching) ==
    IF items = <<>> THEN Ok(matching)
    ELSE LET m == Matches(recipe_name, Head(items))
         IN  IF m.tag = "raise"
             THEN [tag |-> "raise", cls |-> m.cls, text |-> m.text,
                   value |-> matching]
             ELSE FilterRecipes(recipe_name, Tail(items),
                                IF m.value THEN Append(matching, Head(items))
                                ELSE matching)

\* lines 245-251
MatchingRecipes(recipe_name, result) ==
    IF result.kind = "list" THEN FilterRecipes(recipe_name, result.items, <<>>)
    ELSE Ok(<<>>)

FoundLines(i, recipe) ==
    IntToStr(i) \o <<". Name: ">>
    \o Str(Get(recipe, "name", JStr(Unknown))) \o <<NL>>
    \o <<"   UUID: ">> \o Str(Get(recipe, "uuid", JStr(Unknown))) \o <<NL>>
    \o <<"   OS Version: ">>
    \o Str(Get(recipe, "android_version", JStr(Unknown))) \o <<NL, NL>>

\* lines 257-267
FoundText(recipe_name, matching_recipes) ==
    Ret(<<"Found ">> \o IntToStr(Len(matching_recipes))
        \o <<" recipes matching '">> \o recipe_name \o <<"':", NL, NL>>
        \o Concat([i \in 1..Len(matching_recipes) |->
                      FoundLines(i, matching_recipes[i])])
        \o <<"Please choose a recipe by providing its UUID for starting your instance.">>)

\* line 255, `listing` the outcome of the call list_recipes()
NoMatchText(recipe_name, listing) ==
    IF listing.tag = "raise" THEN listing
    ELSE Ret(<<"No recipes found matching '">> \o recipe_name
             \o <<"'. Here are all available recipes:", NL, NL>>
             \o listing.text)

-----------------------------------------------------------------------------
(* The state machine: one call of an operation at a time (section 5 of the *)
(* design: a call runs to completion before the next is dispatched).       *)
(*   pc        where the current call stands                                *)
(*   op, args  the operation called and its arguments                       *)
(*   local     the local variables of the handler                           *)
(*   trace     what the call did to the outside, in order: runs of the tool *)
(*             and sleeps                                                    *)
(*   returned  what the caller got: a text, or an exception that escaped    *)

NoArgs == [none |-> TRUE]
NoLocal == [none |-> TRUE]
NoReturn == [tag |-> "none"]

\* subprocess.run(full_command, env=...) and whether run_gmsaas_command
\* returned a value from it
RunEv(command, proc) ==
    [ev |-> "run", argv |-> FullCommand(command),
     tag |-> "GMSAAS_USER_AGENT_EXTRA_DATA=mcp",
     proc |-> proc,
     ok |-> run_gmsaas_command(proc).tag = "ok"]

\* time.sleep(0.5)
SleepEv == [ev |-> "sleep", seconds |-> "0.5"]

InstanceUuids == {<<"i","1">>, <<"i","2">>}
RecipeUuids == {<<"u","1">>}
InstanceNames == {<<"d","e","v">>}
AdbPorts == {JNull, JNum(6555)}
Queries == {<<"9">>, <<"z","z","z">>, <<"P","I","X">>, <<>>, <<"n">>}

Init ==
    /\ pc = "idle"
    /\ op = "none"
    /\ args = NoArgs
    /\ local = NoLocal
    /\ trace = <<>>
    /\ returned = NoReturn

Dispatchable == pc = "idle"

Finish(o, a, tr, loc, res) ==
    /\ pc' = "done"
    /\ op' = o
    /\ args' = a
    /\ local' = loc
    /\ trace' = tr
    /\ returned' = res

Suspend(at, o, a, tr, loc) ==
    /\ pc' = at
    /\ op' = o
    /\ args' = a
    /\ local' = loc
    /\ trace' = tr
    /\ returned' = NoReturn

CallListRecipes ==
    /\ Dispatchable
    /\ \E proc \in ProcResults("recipes list") :
         Finish("list_recipes", NoArgs,
                <<RunEv(<<Lit("recipes"), Lit("list")>>, proc)>>,
                NoLocal, list_recipes(proc))

CallGetRecipeDetails ==
    /\ Dispatchable
    /\ \E recipe_uuid \in RecipeUuids, proc \in ProcResults("recipes get") :
         Finish("get_recipe_details", [recipe_uuid |-> recipe_uuid],
                <<RunEv(<<Lit("recipes"), Lit("get"), recipe_uuid>>, proc)>>,
                NoLocal, get_recipe_details(recipe_uuid, proc))

CallListRunningInstances ==
    /\ Dispatchable
    /\ \E proc \in ProcResults("instances list") :
         Finish("list_running_instances", NoArgs,
                <<RunEv(<<Lit("instances"), Lit("list")>>, proc)>>,
                NoLocal, list_running_instances(proc))

CallStartInstance ==
    /\ Dispatchable
    /\ \E recipe_uuid \in RecipeUuids, instance_name \in InstanceNames,
          proc \in ProcResults("instances start") :
         Finish("start_instance",
                [recipe_uuid |-> recipe_uuid, instance_name |-> instance_name],
                <<RunEv(<<Lit("instances"), Lit("start"), recipe_uuid,
                          instance_name>>, proc)>>,
                NoLocal, start_instance(recipe_uuid, instance_name, proc))

CallStopInstance ==
    /\ Dispatchable
    /\ \E instance_uuid \in InstanceUuids, proc \in ProcResults("instances stop") :
         Finish("stop_instance", [instance_uuid |-> instance_uuid],
                <<RunEv(<<Lit("instances"), Lit("stop"), instance_uuid>>, proc)>>,
                NoLocal, stop_instance(instance_uuid, proc))

CallDisconnectAdb ==
    /\ Dispatchable
    /\ \E instance_uuid \in InstanceUuids,
          proc \in ProcResults("instances adbdisconnect") :
         Finish("disconnect_adb", [instance_uuid |-> instance_uuid],
                <<RunEv(<<Lit("instances"), Lit("adbdisconnect"),
                          instance_uuid>>, proc)>>,
                NoLocal, disconnect_adb(instance_uuid, proc))

CallGetAvailableOsVersions ==
    /\ Dispatchable
    /\ \E proc \in ProcResults("osimages list") :
         Finish("get_available_os_versions", NoArgs,
                <<RunEv(<<Lit("osimages"), Lit("list")>>, proc)>>,
                NoLocal, get_available_os_versions(proc))

\* connect_adb, lines 177-182: the connect run
CallConnectAdb ==
    /\ Dispatchable
    /\ \E instance_uuid \in InstanceUuids, adb_port \in AdbPorts,
          proc \in ProcResults("instances adbconnect") :
         LET r == run_gmsaas_command(proc)
             a == [instance_uuid |-> instance_uuid, adb_port |-> adb_port]
             tr == <<RunEv(ConnectCommand(instance_uuid, adb_port), proc)>>
         IN  IF r.tag = "raise"
             THEN Finish("connect_adb", a, tr, NoLocal,
                         Except("Error connecting ADB: ", r))
             ELSE Suspend("connect_adb_sleep", "connect_adb", a, tr,
                          [result |-> r.value])

\* connect_adb, lines 183-188 and 199: the sleep, then the look at the
\* connect response
ConnectAdbSleep ==
    /\ pc = "connect_adb_sleep"
    /\ LET tr == Append(trace, SleepEv)
           serial == NestedSerial(local.result)
       IN  IF serial.tag = "raise"
           THEN Finish(op, args, tr, local,
                       Except("Error connecting ADB: ", serial))
           ELSE LET loc == [result |-> local.result,
                            adb_serial_value |-> serial.value]
                IN  IF SerialUnknown(serial.value)
                    THEN Suspend("connect_adb_get", op, args, tr, loc)
                    ELSE Finish(op, args, tr, loc,
                                Except("Error connecting ADB: ",
                                       ConnectText(args.instance_uuid,
                                                   serial.value)))

\* connect_adb, lines 189-199: the fallback query
ConnectAdbGet ==
    /\ pc = "connect_adb_get"
    /\ \E proc \in ProcResults("instances get") :
         LET r == run_gmsaas_command(proc)
             tr == Append(trace,
                          RunEv(<<Lit("instances"), Lit("get"),
                                  args.instance_uuid>>, proc))
         IN  IF r.tag = "raise"
             THEN Finish(op, args, tr, local,
                         Except("Error connecting ADB: ", r))
             ELSE LET serial == TopLevelSerial(r.value, local.adb_serial_value)
                  IN  Finish(op, args, tr,
                             [result |-> local.result,
                              adb_serial_value |-> serial,
                              instance_details_result |-> r.value],
                             Except("Error connecting ADB: ",
                                    ConnectText(args.instance_uuid, serial)))

\* search_recipes, lines 238-253 and 257-267
CallSearchRecipes ==
    /\ Dispatchable
    /\ \E recipe_name \in Queries, proc \in ProcResults("recipes list") :
         LET r == run_gmsaas_command(proc)
             a == [recipe_name |-> recipe_name]
             tr == <<RunEv(<<Lit("recipes"), Lit("list")>>, proc)>>
         IN  IF r.tag = "raise"
             THEN Finish("search_recipes", a, tr, NoLocal,
                         Except("Error searching recipes: ", r))
             ELSE IF ~Truthy(r.value)
             THEN Finish("search_recipes", a, tr, [result |-> r.value],
                         Ret(<<"No recipes found.">>))
             ELSE LET m == MatchingRecipes(recipe_name, r.value)
                      loc == [result |-> r.value,
                              matching_recipes |-> m.value]
                  IN  IF m.tag = "raise"
                      THEN Finish("search_recipes", a, tr, loc,
                                  Except("Error searching recipes: ",
                                         Raise(m.cls, m.text)))
                      ELSE IF m.value = <<>>
                      THEN Suspend("search_recipes_list", "search_recipes",
                                   a, tr, loc)
                      ELSE Finish("search_recipes", a, tr, loc,
                                  Except("Error searching recipes: ",
                                         FoundText(recipe_name, m.value)))

\* search_recipes, lines 254-255: the call of list_recipes(), which runs
\* the tool again
SearchRecipesList ==
    /\ pc = "search_recipes_list"
    /\ \E proc \in ProcResults("recipes list") :
         Finish(op, args,
                Append(trace, RunEv(<<Lit("recipes"), Lit("list")>>, proc)),
                local,
                Except("Error searching recipes: ",
                       NoMatchText(args.recipe_name, list_recipes(proc))))

\* the caller has the response of the call; no state is kept between calls
Respond ==
    /\ pc = "done"
    /\ pc' = "idle"
    /\ op' = "none"
    /\ args' = NoArgs
    /\ local' = NoLocal
    /\ trace' = <<>>
    /\ returned' = NoReturn

Next ==
    \/ CallListRecipes
    \/ CallGetRecipeDetails
    \/ CallListRunningInstances
    \/ CallStartInstance
    \/ CallStopInstance
    \/ CallConnectAdb
    \/ ConnectAdbSleep
    \/ ConnectAdbGet
    \/ CallDisconnectAdb
    \/ CallGetAvailableOsVersions
    \/ CallSearchRecipes
    \/ SearchRecipesList
    \/ Respond

Spec == Init /\ [][Next]_vars

-----------------------------------------------------------------------------
(* Vocabulary of the properties.                                           *)

Done == pc = "done"

\* a run of the tool that failed: no binary, a non-zero exit, or an exit 0
\* whose stdout is no JSON document
Failed(proc) ==
    \/ proc.kind = "missing"
    \/ proc.returncode /= 0
    \/ ~proc.stdout.json

NonZeroExit(proc) == proc.kind = "exit" /\ proc.returncode /= 0
Unparseable(proc) ==
    proc.kind = "exit" /\ proc.returncode = 0 /\ ~proc.stdout.json
Succeeded(proc) == ~Failed(proc)

IsRun(i) == i \in 1..Len(trace) /\ trace[i].ev = "run"

\* the run at trace[i] succeeded with the JSON document v
RanWith(i, v) ==
    IsRun(i) /\ Succeeded(trace[i].proc) /\ trace[i].proc.stdout.value = v

\* how many times pat occurs in text
Occurrences(pat, text) ==
    Cardinality({i \in 0..(Len(text) - Len(pat)) :
                    SubSeq(text, i + 1, i + Len(pat)) = pat})

\* the prefix each handler puts before the str() of a caught exception
ErrorPrefix(o) ==
    CASE o = "list_recipes" -> "Error listing recipes: "
      [] o = "get_recipe_details" -> "Error getting recipe details: "
      [] o = "list_running_instances" -> "Error listing instances: "
      [] o = "start_instance" -> "Error starting instance: "
      [] o = "stop_instance" -> "Error stopping instance: "
      [] o = "connect_adb" -> "Error connecting ADB: "
      [] o = "disconnect_adb" -> "Error disconnecting ADB: "
      [] o = "get_available_os_versions" -> "Error listing OS versions: "
      [] OTHER -> "Error searching recipes: "

\* a text that reports the failure of operation o
FailureText(o, r) ==
    r.tag = "return" /\ StartsWith(r.text, <<ErrorPrefix(o)>>)

-----------------------------------------------------------------------------
\* C1: every call of an operation ends by returning a text to its caller,
\* whatever the external tool did (missing binary, non-zero exit,
\* unparseable stdout, payload of an unexpected shape): no exception
\* escapes the operation.
C1_AlwaysReturnsText ==
    Done => /\ returned.tag = "return"
            /\ returned.text \in Seq(STRING)

\* C1 witness: connect_adb got a connect payload whose "instance" is null
\* (the AttributeError of .get is raised inside the handler) and returned
\* its error text.
C1_Witness ==
    /\ Done
    /\ op = "connect_adb"
    /\ RanWith(1, JDict(<<KV("instance", JNull)>>))
    /\ returned.tag = "return"
    /\ returned.text = <<"Error connecting ADB: ",
                         "'", "NoneType", "' object has no attribute 'get'">>

-----------------------------------------------------------------------------
ExecPrefix == "Error executing gmsaas command: "

\* what a text says after "Error executing gmsaas command: "
Detail(text) ==
    LET i == CHOOSE i \in 1..Len(text) : text[i] = ExecPrefix
    IN  SubSeq(text, i + 1, Len(text))

HasDetail(r) ==
    /\ r.tag = "return"
    /\ \E i \in 1..Len(r.text) : r.text[i] = ExecPrefix

\* C2 as amended: when a run of the tool exits non-zero, the call returns a
\* text that holds "Error executing gmsaas command: " followed by the
\* captured error stream if that is non-empty, otherwise by the captured
\* output stream, whatever it is: when both streams are empty nothing
\* follows the fixed prefix.
C2_TwoLevelFallback ==
    Done =>
      \A i \in 1..Len(trace) :
        (IsRun(i) /\ NonZeroExit(trace[i].proc)) =>
          /\ HasDetail(returned)
          /\ Detail(returned.text) =
               IF trace[i].proc.stderr /= <<>>
               THEN trace[i].proc.stderr
               ELSE trace[i].proc.stdout.text

\* C2 witness: a call whose run exited non-zero with an empty error stream
\* and a non-empty output stream, and whose text carries the output stream.
C2_Witness ==
    /\ Done
    /\ op = "stop_instance"
    /\ IsRun(1) /\ NonZeroExit(trace[1].proc)
    /\ trace[1].proc.stderr = <<>>
    /\ trace[1].proc.stdout.text = <<"o","o","p","s">>
    /\ returned.tag = "return"
    /\ IsSubstr(<<"o","o","p","s">>, returned.text)

\* C2 as stated: the message carries the error stream, else the output
\* stream, else a generic message: it is never left without content.
C2_Original ==
    Done =>
      \A i \in 1..Len(trace) :
        (IsRun(i) /\ NonZeroExit(trace[i].proc)) =>
          /\ HasDetail(returned)
          /\ IF trace[i].proc.stderr /= <<>>
             THEN Detail(returned.text) = trace[i].proc.stderr
             ELSE IF trace[i].proc.stdout.text /= <<>>
             THEN Detail(returned.text) = trace[i].proc.stdout.text
             ELSE Detail(returned.text) /= <<>>

-----------------------------------------------------------------------------
\* C3: when a run of the tool exits with status zero and a stdout that is
\* no JSON document, the call returns a text that reports the failure of
\* the operation (it begins with the operation's error prefix), never a
\* text of another kind.
C3_Original ==
    Done =>
      \A i \in 1..Len(trace) :
        (IsRun(i) /\ Unparseable(trace[i].proc)) => FailureText(op, returned)

-----------------------------------------------------------------------------
\* the fallback of connect_adb applies to the connect payload v: v is a dict
\* and its "instance" (a dict, or absent) has no "adb_serial" or has the
\* str 'Unknown' there
NeedsFallback(v) ==
    /\ v.kind = "dict"
    /\ Get(v, "instance", JDict(<<>>)).kind = "dict"
    /\ LET instance == Get(v, "instance", JDict(<<>>))
       IN  \/ ~HasKey(instance, "adb_serial")
           \/ Get(instance, "adb_serial", JNull) = JStr(Unknown)

\* the connect payload v carries a nested identifier: a str other than
\* 'Unknown'
HasNestedSerial(v) ==
    /\ v.kind = "dict"
    /\ HasKey(v, "instance")
    /\ Get(v, "instance", JNull).kind = "dict"
    /\ HasKey(Get(v, "instance", JNull), "adb_serial")
    /\ Get(Get(v, "instance", JNull), "adb_serial", JNull).kind = "str"
    /\ Get(Get(v, "instance", JNull), "adb_serial", JNull) /= JStr(Unknown)

IsGetRun(i) ==
    /\ IsRun(i)
    /\ trace[i].argv = <<Lit("gmsaas"), Lit("--format"), Lit("json"),
                         Lit("instances"), Lit("get"), args.instance_uuid>>

\* the identifier at the top level of the fetch payload d, as text
TopLevelText(d) ==
    IF d.kind = "dict" /\ HasKey(d, "adb_serial")
    THEN Str(Get(d, "adb_serial", JNull))
    ELSE Unknown

\* C4: in connect_adb, when the connect run succeeds with a payload that
\* has no nested bridge identifier or has 'Unknown' there, the call issues
\* exactly one fetch-instance run, and when that run succeeds the call
\* returns the success text with the identifier read at the top level of
\* the fetch payload, or with 'Unknown' when there is none.
C4_FallbackReportsTopLevel ==
    (Done /\ op = "connect_adb" /\ IsRun(1) /\ Succeeded(trace[1].proc)
          /\ NeedsFallback(trace[1].proc.stdout.value)) =>
      /\ Len(trace) = 3
      /\ IsGetRun(3)
      /\ ~IsGetRun(1)
      /\ Succeeded(trace[3].proc) =>
           /\ returned.tag = "return"
           /\ returned.text =
                <<"ADB connected to ">> \o args.instance_uuid
                \o <<". Use ADB serial: ">>
                \o TopLevelText(trace[3].proc.stdout.value)

\* C4 witness: the connect payload has 'Unknown' nested, the fetch payload
\* has localhost:6555 at its top level, and the text reports localhost:6555.
C4_Witness ==
    /\ Done
    /\ op = "connect_adb"
    /\ RanWith(1, JDict(<<KV("instance",
                             JDict(<<KV("adb_serial", JStr(Unknown))>>))>>))
    /\ RanWith(3, JDict(<<KV("uuid", JStr(<<"i","1">>)),
                          KV("adb_serial", JStr(Serial))>>))
    /\ returned.tag = "return"
    /\ returned.text = <<"ADB connected to ">> \o args.instance_uuid
                       \o <<". Use ADB serial: ">> \o Serial

-----------------------------------------------------------------------------
\* a catalog entry: a dict whose name and android_version, where present,
\* are strs
IsEntry(e) ==
    /\ e.kind = "dict"
    /\ Get(e, "name", JStr(<<>>)).kind = "str"
    /\ Get(e, "android_version", JStr(<<>>)).kind = "str"

\* a catalog: a list of entries
IsCatalog(v) ==
    v.kind = "list" /\ \A i \in 1..Len(v.items) : IsEntry(v.items[i])

SameLetter(c, d) == LowerChar(c) = LowerChar(d)

\* q is a substring of s, letter case ignored
InsensitiveSubstr(q, s) ==
    \E k \in 0..(Len(s) - Len(q)) :
      \A j \in 1..Len(q) : SameLetter(q[j], s[k + j])

\* the entry matches the query on its name or on its platform version
EntryMatches(q, e) ==
    \/ InsensitiveSubstr(q, Get(e, "name", JStr(<<>>)).s)
    \/ InsensitiveSubstr(q, Get(e, "android_version", JStr(<<>>)).s)

MatchingIndices(q, catalog) ==
    {i \in 1..Len(catalog.items) : EntryMatches(q, catalog.items[i])}

\* found is the entries of the catalog at the indices idx, each once, in
\* catalog order
IsSelection(found, catalog, idx) ==
    /\ Len(found) = Cardinality(idx)
    /\ \A k \in 1..Len(found) :
         \E i \in idx :
           /\ Cardinality({j \in idx : j < i}) = k - 1
           /\ found[k] = catalog.items[i]

\* C5: search_recipes over a catalog with at least one matching entry finds
\* exactly the entries whose name or platform version holds the query as a
\* substring, letter case ignored, each once and in catalog order, and its
\* text lists that many entries.
C5_SearchFindsExactlyMatches ==
    (Done /\ op = "search_recipes" /\ IsRun(1) /\ Succeeded(trace[1].proc)
          /\ IsCatalog(trace[1].proc.stdout.value)
          /\ MatchingIndices(args.recipe_name, trace[1].proc.stdout.value) /= {}) =>
      LET catalog == trace[1].proc.stdout.value
          idx == MatchingIndices(args.recipe_name, catalog)
      IN  /\ Len(trace) = 1
          /\ IsSelection(local.matching_recipes, catalog, idx)
          /\ returned.tag = "return"
          /\ SubSeq(returned.text, 1, 3) =
               <<"Found ", Digits[Cardinality(idx) + 1], " recipes matching '">>
          /\ Occurrences(<<". Name: ">>, returned.text) = Cardinality(idx)
          /\ \A k \in 1..Len(local.matching_recipes) :
               IsSubstr(<<Digits[k + 1], ". Name: ">>
                        \o Str(Get(local.matching_recipes[k], "name", JStr(Unknown)))
                        \o <<NL>>,
                        returned.text)

\* C5, no match: a catalog without a matching entry leaves nothing found
\* and sends the call to its fallback.
C5_NoMatchFindsNothing ==
    (op = "search_recipes" /\ pc /= "idle" /\ IsRun(1)
          /\ Succeeded(trace[1].proc)
          /\ IsCatalog(trace[1].proc.stdout.value)
          /\ trace[1].proc.stdout.value.items /= <<>>
          /\ MatchingIndices(args.recipe_name, trace[1].proc.stdout.value) = {}) =>
      /\ local.matching_recipes = <<>>
      /\ pc = "done" => Len(trace) = 2

C5_Search == C5_SearchFindsExactlyMatches /\ C5_NoMatchFindsNothing

\* C5 witness: query "9" over [Px9 (9.0), Nine9 (8.0)]: the first matches
\* on name and on version, the second on name only; both are found, once
\* each.
C5_Witness ==
    /\ Done
    /\ op = "search_recipes"
    /\ args.recipe_name = <<"9">>
    /\ RanWith(1, JList(<<Px9, Nine9>>))
    /\ local.matching_recipes = <<Px9, Nine9>>
    /\ Occurrences(<<". Name: ">>, returned.text) = 2

-----------------------------------------------------------------------------
\* the listing of all the entries of a catalog, as list_recipes renders it
FullListing(catalog) ==
    <<"Available recipes:", NL>>
    \o Concat([i \in 1..Len(catalog.items) |->
                  <<"- Name: ">>
                  \o Str(Get(catalog.items[i], "name", JStr(Unknown)))
                  \o <<NL, "  UUID: ">>
                  \o Str(Get(catalog.items[i], "uuid", JStr(Unknown)))
                  \o <<NL, "  OS Version: ">>
                  \o Str(Get(catalog.items[i], "os_version", JStr(Unknown)))
                  \o <<NL, NL>>])

\* C6: search_recipes with a query that matches no entry of a non-empty
\* catalog returns a message naming the query followed by the full listing
\* of all the entries of that catalog.
C6_Original ==
    (Done /\ op = "search_recipes" /\ IsRun(1) /\ Succeeded(trace[1].proc)
          /\ IsCatalog(trace[1].proc.stdout.value)
          /\ trace[1].proc.stdout.value.items /= <<>>
          /\ MatchingIndices(args.recipe_name, trace[1].proc.stdout.value) = {}) =>
      /\ returned.tag = "return"
      /\ returned.text =
           <<"No recipes found matching '">> \o args.recipe_name
           \o <<"'. Here are all available recipes:", NL, NL>>
           \o FullListing(trace[1].proc.stdout.value)

\* C6, what the code does hold to: the text names the query and is followed
\* by whatever the second run of the tool makes list_recipes return.
C6_ListsSecondRun ==
    (Done /\ op = "search_recipes" /\ Len(trace) = 2) =>
      /\ returned.tag = "return"
      /\ StartsWith(returned.text,
                    <<"No recipes found matching '">> \o args.recipe_name
                    \o <<"'. Here are all available recipes:", NL, NL>>)
      /\ (Succeeded(trace[2].proc) /\ IsCatalog(trace[2].proc.stdout.value)
            /\ trace[2].proc.stdout.value.items /= <<>>) =>
           returned.text =
             <<"No recipes found matching '">> \o args.recipe_name
             \o <<"'. Here are all available recipes:", NL, NL>>
             \o FullListing(trace[2].proc.stdout.value)

-----------------------------------------------------------------------------
NoneFoundMessages ==
    {"No recipes found.", "No running instances found.",
     "No Android OS versions found."}

\* C7 as stated: whatever the operation, when its run of the tool succeeds
\* with an empty list payload the text is a fixed "none found" message.
C7_Original ==
    (Done /\ RanWith(1, JList(<<>>))) =>
      /\ returned.tag = "return"
      /\ \E m \in NoneFoundMessages : returned.text = <<m>>

\* C7 as amended: on an empty list payload the four listing operations
\* return their fixed "none found" message and run the tool no further;
\* the other operations have no such message: get_recipe_details returns
\* the dump "[]", stop_instance and disconnect_adb return their
\* confirmation, start_instance and connect_adb return an error text.
C7_NoneFoundOfListings ==
    (Done /\ RanWith(1, JList(<<>>))) =>
      /\ returned.tag = "return"
      /\ returned.text /= <<>>
      /\ op = "list_recipes" => returned.text = <<"No recipes found.">>
      /\ op = "search_recipes" =>
           returned.text = <<"No recipes found.">> /\ Len(trace) = 1
      /\ op = "list_running_instances" =>
           returned.text = <<"No running instances found.">>
      /\ op = "get_available_os_versions" =>
           returned.text = <<"No Android OS versions found.">>
      /\ op = "get_recipe_details" => returned.text = <<"[]">>
      /\ op = "stop_instance" =>
           returned.text = <<"Instance ">> \o args.instance_uuid
                           \o <<" stopped successfully.">>
      /\ op = "disconnect_adb" =>
           returned.text = <<"ADB disconnected from ">> \o args.instance_uuid
                           \o <<".">>
      /\ op \in {"start_instance", "connect_adb"} =>
           /\ FailureText(op, returned)
           /\ IsSubstr(<<"list", "' object has no attribute 'get'">>,
                       returned.text)

\* C7 witness: list_running_instances got an empty list and answered with
\* its fixed message.
C7_Witness ==
    /\ Done
    /\ op = "list_running_instances"
    /\ RanWith(1, JList(<<>>))
    /\ returned = Ret(<<"No running instances found.">>)

-----------------------------------------------------------------------------
\* a list of OS images: dicts whose os_version, where present, is a str
IsImageList(v) ==
    /\ v.kind = "list"
    /\ v.items /= <<>>
    /\ \A i \in 1..Len(v.items) :
         /\ v.items[i].kind = "dict"
         /\ Get(v.items[i], "os_version", JStr(Unknown)).kind = "str"

VersionOf(image) == Get(image, "os_version", JStr(Unknown)).s

\* the images of the list are pairwise different and each carries a version
DistinctVersionedImages(v) ==
    /\ \A i \in 1..Len(v.items) : HasKey(v.items[i], "os_version")
    /\ \A i, j \in 1..Len(v.items) : i /= j => v.items[i] /= v.items[j]

\* C8 as stated: the text lists the distinct versions: a version carried by
\* several images of the payload has one line.
C8_Original ==
    (Done /\ op = "get_available_os_versions" /\ IsRun(1)
          /\ Succeeded(trace[1].proc)
          /\ IsImageList(trace[1].proc.stdout.value)
          /\ DistinctVersionedImages(trace[1].proc.stdout.value)) =>
      /\ returned.tag = "return"
      /\ \A i \in 1..Len(trace[1].proc.stdout.value.items) :
           Occurrences(<<"- ">> \o VersionOf(trace[1].proc.stdout.value.items[i])
                       \o <<NL>>,
                       returned.text) = 1

\* C8 as amended: the text has one line per image of the payload, in
\* payload order, with the version of that image ('Unknown' when it has
\* none): a version carried by k images has k lines.
C8_OneLinePerImage ==
    (Done /\ op = "get_available_os_versions" /\ IsRun(1)
          /\ Succeeded(trace[1].proc)
          /\ IsImageList(trace[1].proc.stdout.value)) =>
      LET images == trace[1].proc.stdout.value.items
      IN  /\ returned.tag = "return"
          /\ returned.text =
               <<"Available Android OS versions:", NL>>
               \o Concat([i \in 1..Len(images) |->
                             <<"- ">> \o VersionOf(images[i]) \o <<NL>>])
          /\ Occurrences(<<"- ">>, returned.text) = Len(images)
          /\ \A i \in 1..Len(images) :
               Occurrences(<<"- ">> \o VersionOf(images[i]) \o <<NL>>,
                           returned.text)
               = Cardinality({j \in 1..Len(images) :
                                VersionOf(images[j]) = VersionOf(images[i])})

\* C8 witness: two images of version 9.0 give two lines "- 9.0".
C8_Witness ==
    /\ Done
    /\ op = "get_available_os_versions"
    /\ RanWith(1, JList(<<Img9a, Img9b>>))
    /\ Occurrences(<<"- ", "9", ".", "0", NL>>, returned.text) = 2

-----------------------------------------------------------------------------
IsSleep(i) == i \in 1..Len(trace) /\ trace[i].ev = "sleep"

NestedText(v) == Get(Get(v, "instance", JNull), "adb_serial", JNull).s

\* C9 as stated: when the connect payload carries a nested identifier, the
\* call returns it at once: it neither waits nor queries.
C9_Original ==
    (Done /\ op = "connect_adb" /\ IsRun(1) /\ Succeeded(trace[1].proc)
          /\ HasNestedSerial(trace[1].proc.stdout.value)) =>
      /\ returned.tag = "return"
      /\ \A i \in 1..Len(trace) : ~IsSleep(i) /\ ~IsGetRun(i)

\* C9 as amended: connect_adb waits after every connect run that succeeded,
\* before it looks at the payload, and nowhere else; when the payload
\* carries a nested identifier the call returns it after that wait, without
\* a query; the fetch-instance run happens only in the fallback path, right
\* after the wait.
C9_WaitThenMaybeFetch ==
    op = "connect_adb" =>
      /\ \A i \in 1..Len(trace) :
           IsSleep(i) => i = 2 /\ IsRun(1) /\ Succeeded(trace[1].proc)
      /\ \A i \in 1..Len(trace) :
           IsGetRun(i) =>
             /\ i = 3
             /\ IsSleep(2)
             /\ IsRun(1) /\ Succeeded(trace[1].proc)
             /\ NeedsFallback(trace[1].proc.stdout.value)
      /\ (Done /\ IsRun(1) /\ Succeeded(trace[1].proc)) => IsSleep(2)
      /\ (Done /\ IsRun(1) /\ Succeeded(trace[1].proc)
               /\ HasNestedSerial(trace[1].proc.stdout.value)) =>
           /\ Len(trace) = 2
           /\ returned.tag = "return"
           /\ returned.text =
                <<"ADB connected to ">> \o args.instance_uuid
                \o <<". Use ADB serial: ">>
                \o NestedText(trace[1].proc.stdout.value)
      /\ (Done /\ IsRun(1) /\ Succeeded(trace[1].proc)
               /\ NeedsFallback(trace[1].proc.stdout.value)) => IsGetRun(3)

\* C9 witness: the connect payload carried localhost:6555 nested; the call
\* waited, ran no query and returned it.
C9_Witness ==
    /\ Done
    /\ op = "connect_adb"
    /\ RanWith(1, JDict(<<KV("instance",
                             JDict(<<KV("adb_serial", JStr(Serial))>>))>>))
    /\ Len(trace) = 2
    /\ IsSleep(2)
    /\ returned.text = <<"ADB connected to ">> \o args.instance_uuid
                       \o <<". Use ADB serial: ">> \o Serial

-----------------------------------------------------------------------------
\* C10: within one call, no run of the tool follows a run that failed
\* (missing binary, non-zero exit or unparseable output); connect_adb runs
\* the fetch-instance query only after a connect run that succeeded.
C10_NoRunAfterFailure ==
    /\ \A i \in 1..Len(trace) :
         (IsRun(i) /\ Failed(trace[i].proc)) =>
           \A j \in (i + 1)..Len(trace) : ~IsRun(j)
    /\ op = "connect_adb" =>
         \A j \in 1..Len(trace) :
           IsGetRun(j) => j > 1 /\ IsRun(1) /\ Succeeded(trace[1].proc)
    /\ Done => \A i \in 1..Len(trace) :
                 (IsRun(i) /\ Failed(trace[i].proc)) => i = Len(trace)

\* C10 witness: the connect run of connect_adb exited non-zero and the call
\* ended there, with that single run.
C10_Witness ==
    /\ Done
    /\ op = "connect_adb"
    /\ Len(trace) = 1
    /\ IsRun(1) /\ NonZeroExit(trace[1].proc)
    /\ FailureText(op, returned)

====
